---- MODULE Spec2Model ----
(***************************************************************************)
(* Five-point-stencil derivatives of PyNumericBrad                         *)
(* (NumericDerivatives/stencils.py): D1_5 and D2_5 and their ten kernels.  *)
(*                                                                         *)
(* Numbers are exact rationals <<numerator, denominator>>; the floating    *)
(* point rounding of the program is abstracted, everything else (index     *)
(* arithmetic, slices, views, the order of the checks) follows the code.   *)
(* Arrays are views [shape, buf, T] on buffers of a heap, as numpy's are:  *)
(* data.T is a view on the same buffer, np.copy and arithmetic allocate.   *)
(***************************************************************************)
EXTENDS Integers, Sequences, FiniteSets, TLC

VARIABLES
    fn,          \* which entry point runs: "D1" (D1_5) or "D2" (D2_5)
    arg,         \* the caller's reference to the object passed as data
    step,        \* parameter step
    axisArg,     \* the value the caller passed as axis
    heap,        \* buffer id -> sequence of cells
    data,        \* local data (rebound by line 159)
    data_shape,  \* local data_shape
    axis,        \* local axis (rebound by line 149)
    bRotated,    \* local bRotated
    out,         \* local out
    j,           \* loop variable of the 2-D row loop, Unbound before the first pass
    pc,          \* position in the function body
    raised,      \* the exception that ended the call, or NoError
    ret,         \* the returned array, or NoArray
    prev         \* the caller's record of its previous call (two-call runs)

vars == <<fn, arg, step, axisArg, heap, data, data_shape, axis, bRotated,
          out, j, pc, raised, ret, prev>>

(***************************************************************************)
(* Bounds of the model and constants of the program.                       *)
(***************************************************************************)
MaxLen == 11
MaxLines == 2
MaxCoef == 1
MaxStep == 2

MinPoints == 5
WarnPoints == 10
Placeholder == -100

\* the value of a local that no statement has bound yet
Unbound == -1

(***************************************************************************)
(* Exact arithmetic on <<numerator, denominator>>.                         *)
(***************************************************************************)
RAdd(a, b) ==
    IF a[2] = b[2] THEN <<a[1] + b[1], a[2]>>
    ELSE <<a[1] * b[2] + b[1] * a[2], a[2] * b[2]>>

RSub(a, b) == RAdd(a, <<-b[1], b[2]>>)

RMul(k, a) == <<k * a[1], a[2]>>

RDiv(a, k) == <<a[1], a[2] * k>>

REq(a, b) == a[1] * b[2] = b[1] * a[2]

\* p[k] of the code, for a window p of five samples
P(p, k) == p[k + 1]

(***************************************************************************)
(* The kernels of the first derivative.                                    *)
(***************************************************************************)
D1_Five_Point_Stencil(p, h) ==
    RDiv(RSub(RMul(8, RSub(P(p, 3), P(p, 1))), RSub(P(p, 4), P(p, 0))), 12 * h)

D1_Five_Point_Stencil_Assymmetric_F(p, h) ==
    RDiv(RAdd(RSub(RSub(RAdd(RMul(-10, P(p, 1)), RMul(18, P(p, 2))),
                        RMul(3, P(p, 0))),
                   RMul(6, P(p, 3))),
              P(p, 4)),
         12 * h)

D1_Five_Point_Stencil_Assymmetric_B(p, h) ==
    RDiv(RSub(RAdd(RSub(RAdd(RMul(10, P(p, 3)), RMul(3, P(p, 4))),
                        RMul(18, P(p, 2))),
                   RMul(6, P(p, 1))),
              P(p, 0)),
         12 * h)

D1_Five_Point_Stencil_Forward_Slip(p, h) ==
    RDiv(RSub(RAdd(RSub(RAdd(RMul(-25, P(p, 0)), RMul(48, P(p, 1))),
                        RMul(36, P(p, 2))),
                   RMul(16, P(p, 3))),
              RMul(4, P(p, 4))),
         12 * h)

D1_Five_Point_Stencil_Forward(p, h) ==
    RDiv(RSub(RAdd(RSub(RAdd(RMul(-25, P(p, 0)), RMul(48, P(p, 1))),
                        RMul(36, P(p, 2))),
                   RMul(16, P(p, 3))),
              RMul(3, P(p, 4))),
         12 * h)

D1_Five_Point_Stencil_Backward(p, h) ==
    RDiv(RAdd(RSub(RAdd(RSub(RMul(25, P(p, 4)), RMul(48, P(p, 3))),
                        RMul(36, P(p, 2))),
                   RMul(16, P(p, 1))),
              RMul(3, P(p, 0))),
         12 * h)

(***************************************************************************)
(* The kernels of the second derivative; h**2.0 is h * h.                  *)
(***************************************************************************)
D2_Five_Point_Stencil(p, h) ==
    RDiv(RSub(RAdd(RMul(-30, P(p, 2)), RMul(16, RAdd(P(p, 1), P(p, 3)))),
              RAdd(P(p, 0), P(p, 4))),
         12 * (h * h))

D2_Five_Point_Stencil_Assymmetric_F(p, h) ==
    RDiv(RSub(RAdd(RAdd(RSub(RMul(11, P(p, 0)), RMul(20, P(p, 1))),
                        RMul(6, P(p, 2))),
                   RMul(4, P(p, 3))),
              RMul(1, P(p, 4))),
         12 * (h * h))

D2_Five_Point_Stencil_Assymmetric_B(p, h) ==
    RDiv(RAdd(RSub(RAdd(RAdd(RMul(-1, P(p, 0)), RMul(4, P(p, 1))),
                        RMul(6, P(p, 2))),
                   RMul(20, P(p, 3))),
              RMul(11, P(p, 4))),
         12 * (h * h))

D2_Five_Point_Stencil_Forward(p, h) ==
    RDiv(RAdd(RSub(RAdd(RSub(RMul(35, P(p, 0)), RMul(104, P(p, 1))),
                        RMul(114, P(p, 2))),
                   RMul(56, P(p, 3))),
              RMul(11, P(p, 4))),
         12 * (h * h))

D2_Five_Point_Stencil_Backward(p, h) ==
    RDiv(RAdd(RSub(RAdd(RSub(RMul(11, P(p, 0)), RMul(56, P(p, 1))),
                        RMul(114, P(p, 2))),
                   RMul(104, P(p, 3))),
              RMul(35, P(p, 4))),
         12 * (h * h))

\* the kernel a call site names: D1_5 calls the __D1_ kernels, D2_5 the __D2_ ones
Forward(f, p, h) ==
    IF f = "D1" THEN D1_Five_Point_Stencil_Forward(p, h)
    ELSE D2_Five_Point_Stencil_Forward(p, h)

Assymmetric_F(f, p, h) ==
    IF f = "D1" THEN D1_Five_Point_Stencil_Assymmetric_F(p, h)
    ELSE D2_Five_Point_Stencil_Assymmetric_F(p, h)

Assymmetric_B(f, p, h) ==
    IF f = "D1" THEN D1_Five_Point_Stencil_Assymmetric_B(p, h)
    ELSE D2_Five_Point_Stencil_Assymmetric_B(p, h)

Backward(f, p, h) ==
    IF f = "D1" THEN D1_Five_Point_Stencil_Backward(p, h)
    ELSE D2_Five_Point_Stencil_Backward(p, h)

Centered(f, p, h) ==
    IF f = "D1" THEN D1_Five_Point_Stencil(p, h)
    ELSE D2_Five_Point_Stencil(p, h)

(***************************************************************************)
(* numpy arrays: a view [isArray, shape, buf, T] on a buffer of the heap.  *)
(* A rank-2 view with T = FALSE reads its buffer in row-major order; with  *)
(* T = TRUE it is the transpose of the row-major array the buffer holds.   *)
(***************************************************************************)
NoArray == [isArray |-> FALSE, shape |-> <<>>, buf |-> -1, T |-> FALSE]

\* len(np.shape(v))
ndim(v) == Len(v.shape)

\* position in the buffer of v[i] (rank 1, jj unused) or v[jj, i] (rank 2)
Off(v, jj, i) ==
    IF Len(v.shape) = 1 THEN i + 1
    ELSE IF v.T THEN i * v.shape[1] + jj + 1
    ELSE jj * v.shape[2] + i + 1

Cell(hp, v, jj, i) == hp[v.buf][Off(v, jj, i)]

\* the mutant of Slice: every row reads row 0
Slice_RowZero(hp, v, jj, lo) == [k \in 1..5 |-> Cell(hp, v, 0, lo + k - 1)]

\* data[lo:lo+5] (rank 1) or data[jj, lo:lo+5] (rank 2)
Slice(hp, v, jj, lo) == [k \in 1..5 |-> Cell(hp, v, jj, lo + k - 1)]

\* out[i] = val (rank 1) or out[jj, i] = val (rank 2)
SetCell(hp, v, jj, i, val) ==
    [hp EXCEPT ![v.buf] = [@ EXCEPT ![Off(v, jj, i)] = val]]

\* v.T of a rank-2 array: a view on the same buffer
TransposeView(v) ==
    [v EXCEPT !.shape = <<v.shape[2], v.shape[1]>>, !.T = ~v.T]

\* the array a view shows, as rows of cells
Mat(hp, v) ==
    [r \in 1..v.shape[1] |-> [c \in 1..v.shape[2] |-> Cell(hp, v, r - 1, c - 1)]]

(***************************************************************************)
(* The exceptions of D1_5 and D2_5.                                        *)
(***************************************************************************)
NoError == <<"", "">>
TypeErr == <<"TypeError", "'data' must be of type numpy.ndarray">>
DimErr == <<"ValueError", "'data' must be either 1 or 2 dimensional">>
Axis1Err == <<"ValueError", "'axis' can only be equal to 1 for two-dimensional data">>
AxisErr == <<"ValueError", "'axis' can only have the value -1, 0, or 1">>
FewPointsErr == <<"Exception", "Cannot perform a stencil on fewer than 5 points!">>
HalfDataWarn ==
    <<"Warning", "You're using at least half your data to calculate the derivative at each point!">>

(***************************************************************************)
(* The steps of the function body as functions of the locals they read.    *)
(***************************************************************************)
\* lines 148-155: the if / elif chain on axis
NormAxis(a, nd) ==
    IF a = -1 THEN [raised |-> NoError, axis |-> nd - 1]
    ELSE IF a = 1 /\ nd # 2 THEN [raised |-> Axis1Err, axis |-> a]
    ELSE IF a = 0 THEN [raised |-> NoError, axis |-> a]
    ELSE [raised |-> AxisErr, axis |-> a]

\* the mutant of Rotated: the data is never transposed
Rotated_Never(d, ax) == [data |-> d, rot |-> FALSE]

\* lines 157-161: data and bRotated after the axis normalizer
Rotated(d, ax) ==
    IF ndim(d) = 2 /\ ax = 0 THEN [data |-> TransposeView(d), rot |-> TRUE]
    ELSE [data |-> d, rot |-> FALSE]

\* the mutant of LengthCheck: the first dimension is tested, not the last
LengthCheck_FirstDim(shape) ==
    IF shape[1] < MinPoints THEN FewPointsErr
    ELSE IF shape[1] < WarnPoints THEN HalfDataWarn
    ELSE NoError

\* lines 163-167: the test of data_shape[-1]
LengthCheck(shape) ==
    IF shape[Len(shape)] < MinPoints THEN FewPointsErr
    ELSE IF shape[Len(shape)] < WarnPoints THEN HalfDataWarn
    ELSE NoError

\* a buffer id not in use
FreshBuf(hp) == CHOOSE b \in 0..Cardinality(DOMAIN hp) : b \notin DOMAIN hp

\* the mutant of Allocated: out is bound to data itself, nothing is copied
Allocated_Alias(hp, d) == [heap |-> hp, out |-> d]

\* line 169: out = -100.0 + 0.0*np.copy(data); the copy and the product are
\* temporaries, the sum is a new array of data's shape and layout
Allocated(hp, d) ==
    LET b == FreshBuf(hp)
        cells == [k \in 1..Len(hp[d.buf]) |->
                    RAdd(<<Placeholder, 1>>, RMul(0, hp[d.buf][k]))]
    IN [heap |-> hp @@ (b :> cells), out |-> [d EXCEPT !.buf = b]]

RECURSIVE Interior(_, _, _, _, _, _, _, _)
\* lines 176-177, 184-185: for i in range(2, n-2), from i on
Interior(hp, f, d, o, jj, i, n, h) ==
    IF i >= n - 2 THEN hp
    ELSE Interior(SetCell(hp, o, jj, i, Centered(f, Slice(hp, d, jj, i - 2), h)),
                  f, d, o, jj, i + 1, n, h)

\* lines 172-177 (rank 1) and 180-185 (one row jj of rank 2), in the code's order
RowStencils(hp, f, d, o, jj, n, h) ==
    LET h1 == SetCell(hp, o, jj, 0, Forward(f, Slice(hp, d, jj, 0), h))
        h2 == SetCell(h1, o, jj, 1, Assymmetric_F(f, Slice(h1, d, jj, 0), h))
        h3 == SetCell(h2, o, jj, n - 2, Assymmetric_B(f, Slice(h2, d, jj, n - 5), h))
        h4 == SetCell(h3, o, jj, n - 1, Backward(f, Slice(h3, d, jj, n - 5), h))
    IN Interior(h4, f, d, o, jj, 2, n, h)

\* the mutant of Unrotated: the result is returned as computed
Unrotated_Never(o, rot) == o

\* lines 188-189: if bRotated: out = out.T
Unrotated(o, rot) == IF rot THEN TransposeView(o) ELSE o

(***************************************************************************)
(* The inputs the calls are made with.                                     *)
(***************************************************************************)
Fns == {"D1", "D2"}
Steps == 1..MaxStep
AxisArgs == {-1, 0, 1, 2}
Coefs == (-MaxCoef)..MaxCoef
Lens == {MinPoints - 1, MinPoints, WarnPoints - 1} \cup (WarnPoints..MaxLen)
LineCounts == 0..MaxLines

\* a line of samples: a + b*x + c*x^2 at x = i*h, or a unit impulse at k
Polys == {<<"poly", a, b, c>> : a \in Coefs, b \in Coefs, c \in Coefs}
Imps(n) == {<<"imp", k, 0, 0>> : k \in 0..(n - 1)}
Sample(rs, i, h) ==
    IF rs[1] = "poly" THEN rs[2] + rs[3] * (i * h) + rs[4] * (i * h) * (i * h)
    ELSE IF i = rs[2] THEN 1 ELSE 0

Fam1(n) == Polys \cup Imps(n)
Fam2(n) == {<<"poly", -MaxCoef, MaxCoef, MaxCoef>>, <<"imp", n \div 2, 0, 0>>,
            <<"imp", n - 1, 0, 0>>}

Vec(rs, n, h) ==
    [view |-> [isArray |-> TRUE, shape |-> <<n>>, buf |-> 0, T |-> FALSE],
     cells |-> [k \in 1..n |-> <<Sample(rs, k - 1, h), 1>>]]

\* m lines of n samples: the rows of an (m, n) array, or (t) the columns of
\* the (n, m) array that is its transposed view
Grid(ls, m, n, h, t) ==
    [view |-> [isArray |-> TRUE, shape |-> IF t THEN <<n, m>> ELSE <<m, n>>,
               buf |-> 0, T |-> t],
     cells |-> [k \in 1..(m * n) |->
                  <<Sample(ls[((k - 1) \div n) + 1], (k - 1) % n, h), 1>>]]

\* a plain list, and arrays of rank 0 and 3
NonArrays ==
    {[view |-> [isArray |-> FALSE, shape |-> <<WarnPoints>>, buf |-> 0, T |-> FALSE],
      cells |-> [k \in 1..WarnPoints |-> <<k - 1, 1>>]]}
OddRanks ==
    {[view |-> [isArray |-> TRUE, shape |-> <<>>, buf |-> 0, T |-> FALSE],
      cells |-> << <<1, 1>> >>],
     [view |-> [isArray |-> TRUE, shape |-> <<1, 1, WarnPoints>>, buf |-> 0, T |-> FALSE],
      cells |-> [k \in 1..WarnPoints |-> <<k - 1, 1>>]]}

Vecs(h) == UNION {{Vec(rs, n, h) : rs \in Fam1(n)} : n \in Lens}
Grids(h) ==
    UNION {{Grid(ls, m, n, h, t) : ls \in [1..m -> Fam2(n)], t \in BOOLEAN} :
           m \in LineCounts, n \in Lens}

Inputs(h) == NonArrays \cup OddRanks \cup Vecs(h) \cup Grids(h)
PairInputs(h) == NonArrays \cup OddRanks \cup {Vec(<<"imp", 0, 0, 0>>, MaxLen, h)}
                 \cup Grids(h)

NoPrev ==
    [kind |-> "none", shape |-> <<>>, input |-> <<>>, raised |-> NoError,
     returned |-> FALSE, res |-> <<>>]

(***************************************************************************)
(* The call: D1_5(data, step, axis) or D2_5(data, step, axis).             *)
(***************************************************************************)
\* the state at the entry of the function body
Enter(f, h, a, view, cells, p) ==
    /\ fn = f /\ step = h /\ axisArg = a
    /\ arg = view /\ heap = (0 :> cells)
    /\ data = view /\ data_shape = <<>> /\ axis = a /\ bRotated = FALSE
    /\ out = NoArray /\ j = Unbound /\ pc = "type" /\ raised = NoError
    /\ ret = NoArray /\ prev = p

Init ==
    \E f \in Fns, h \in Steps, a \in AxisArgs :
        \E inp \in Inputs(h) : Enter(f, h, a, inp.view, inp.cells, NoPrev)

InitPair ==
    \E f \in Fns, h \in Steps, a \in AxisArgs :
        \E inp \in PairInputs(h) : Enter(f, h, a, inp.view, inp.cells, NoPrev)

Raise(e) ==
    /\ raised' = e
    /\ pc' = "done"

\* lines 142-143
CheckType ==
    /\ pc = "type"
    /\ IF ~data.isArray THEN Raise(TypeErr)
       ELSE pc' = "shape" /\ UNCHANGED raised
    /\ UNCHANGED <<fn, arg, step, axisArg, heap, data, data_shape, axis,
                   bRotated, out, j, ret, prev>>

\* lines 144-146
CheckShape ==
    /\ pc = "shape"
    /\ data_shape' = data.shape
    /\ IF ~(Len(data_shape') = 1 \/ Len(data_shape') = 2) THEN Raise(DimErr)
       ELSE pc' = "axis" /\ UNCHANGED raised
    /\ UNCHANGED <<fn, arg, step, axisArg, heap, data, axis, bRotated, out, j,
                   ret, prev>>

\* lines 148-155
CheckAxis ==
    /\ pc = "axis"
    /\ LET r == NormAxis(axis, Len(data_shape))
       IN /\ axis' = r.axis
          /\ IF r.raised # NoError THEN Raise(r.raised)
             ELSE pc' = "rotate" /\ UNCHANGED raised
    /\ UNCHANGED <<fn, arg, step, axisArg, heap, data, data_shape, bRotated,
                   out, j, ret, prev>>

\* lines 157-161
Rotate ==
    /\ pc = "rotate"
    /\ LET r == Rotated(data, axis)
       IN /\ data' = r.data
          /\ bRotated' = r.rot
          /\ data_shape' = IF r.rot THEN r.data.shape ELSE data_shape
    /\ pc' = "length"
    /\ UNCHANGED <<fn, arg, step, axisArg, heap, axis, out, j, raised, ret, prev>>

\* lines 163-167
CheckLength ==
    /\ pc = "length"
    /\ LET e == LengthCheck(data_shape)
       IN IF e # NoError THEN Raise(e)
          ELSE pc' = "alloc" /\ UNCHANGED raised
    /\ UNCHANGED <<fn, arg, step, axisArg, heap, data, data_shape, axis,
                   bRotated, out, j, ret, prev>>

\* line 169
Alloc ==
    /\ pc = "alloc"
    /\ LET r == Allocated(heap, data)
       IN heap' = r.heap /\ out' = r.out
    /\ pc' = "rows"
    /\ UNCHANGED <<fn, arg, step, axisArg, data, data_shape, axis, bRotated,
                   j, raised, ret, prev>>

\* lines 171-177
Rows1D ==
    /\ pc = "rows"
    /\ Len(data_shape) = 1
    /\ heap' = RowStencils(heap, fn, data, out, 0, data_shape[1], step)
    /\ pc' = "unrotate"
    /\ UNCHANGED <<fn, arg, step, axisArg, data, data_shape, axis, bRotated,
                   out, j, raised, ret, prev>>

\* the value range(data_shape[0]) gives j next
NextPass == IF j = Unbound THEN 0 ELSE j + 1

\* lines 178-185: one pass of the loop over j; after the last one the loop ends
Rows2D ==
    /\ pc = "rows"
    /\ Len(data_shape) = 2
    /\ NextPass < data_shape[1]
    /\ j' = NextPass
    /\ heap' = RowStencils(heap, fn, data, out, j', data_shape[2], step)
    /\ pc' = IF j' + 1 < data_shape[1] THEN "rows" ELSE "unrotate"
    /\ UNCHANGED <<fn, arg, step, axisArg, data, data_shape, axis, bRotated,
                   out, raised, ret, prev>>

\* lines 178-179: range(data_shape[0]) is empty, the loop makes no pass
Rows2DNone ==
    /\ pc = "rows"
    /\ Len(data_shape) = 2
    /\ data_shape[1] = 0
    /\ pc' = "unrotate"
    /\ UNCHANGED <<fn, arg, step, axisArg, heap, data, data_shape, axis,
                   bRotated, out, j, raised, ret, prev>>

\* lines 188-191
Return ==
    /\ pc = "unrotate"
    /\ out' = Unrotated(out, bRotated)
    /\ ret' = out'
    /\ pc' = "done"
    /\ UNCHANGED <<fn, arg, step, axisArg, heap, data, data_shape, axis,
                   bRotated, j, raised, prev>>

Next ==
    \/ CheckType
    \/ CheckShape
    \/ CheckAxis
    \/ Rotate
    \/ CheckLength
    \/ Alloc
    \/ Rows1D
    \/ Rows2D
    \/ Rows2DNone
    \/ Return

Spec == Init /\ [][Next]_vars

(***************************************************************************)
(* Two calls in a row: the caller keeps the input and the outcome of its   *)
(* first call in prev and calls the same function again, on the transpose  *)
(* of the array with the other axis, or on the array with one line along   *)
(* the differentiation axis replaced.                                      *)
(***************************************************************************)
\* the transpose of an array given as rows of cells
\* M has shape sh
MatT(M, sh) == [c \in 1..sh[2] |-> [r \in 1..sh[1] |-> M[r][c]]]

\* a new array showing M, stored row-major (t = FALSE) or as the transposed
\* view of its row-major transpose (t = TRUE)
FromMat(M, sh, t) ==
    LET r == sh[1]
        c == sh[2]
    IN [view |-> [isArray |-> TRUE, shape |-> <<r, c>>, buf |-> 0, T |-> t],
        cells |-> [k \in 1..(r * c) |->
                     IF t THEN M[((k - 1) % r) + 1][((k - 1) \div r) + 1]
                     ELSE M[((k - 1) \div c) + 1][((k - 1) % c) + 1]]]

\* M with line l along axis a (a row for the last axis, a column for axis 0)
\* replaced by the samples of rs
WithLine(M, sh, a, l, rs, h) ==
    [r \in 1..sh[1] |-> [c \in 1..sh[2] |->
        IF a = 0 THEN (IF c = l THEN <<Sample(rs, r - 1, h), 1>> ELSE M[r][c])
        ELSE (IF r = l THEN <<Sample(rs, c - 1, h), 1>> ELSE M[r][c])]]

Outcome(kind) ==
    [kind |-> kind, shape |-> arg.shape, input |-> Mat(heap, arg),
     raised |-> raised, returned |-> ret # NoArray,
     res |-> IF ret = NoArray THEN <<>> ELSE Mat(heap, ret)]

Call(a, view, cells, p) ==
    /\ axisArg' = a
    /\ arg' = view /\ heap' = (0 :> cells)
    /\ data' = view /\ data_shape' = <<>> /\ axis' = a /\ bRotated' = FALSE
    /\ out' = NoArray /\ j' = Unbound /\ pc' = "type" /\ raised' = NoError
    /\ ret' = NoArray /\ prev' = p
    /\ UNCHANGED <<fn, step>>

CallTransposed ==
    /\ pc = "done"
    /\ prev.kind = "none"
    /\ arg.isArray /\ ndim(arg) = 2
    /\ axisArg \in {-1, 0}
    /\ LET N == FromMat(MatT(Mat(heap, arg), arg.shape),
                        <<arg.shape[2], arg.shape[1]>>, FALSE)
       IN Call(IF axisArg = 0 THEN -1 ELSE 0, N.view, N.cells,
               Outcome("transposed"))

CallPerturbed ==
    /\ pc = "done"
    /\ prev.kind = "none"
    /\ arg.isArray /\ ndim(arg) = 2
    /\ axisArg \in {-1, 0}
    /\ LET M == Mat(heap, arg)
           nl == IF axisArg = 0 THEN arg.shape[2] ELSE arg.shape[1]
           n == IF axisArg = 0 THEN arg.shape[1] ELSE arg.shape[2]
       IN \E l \in 1..nl, rs \in Fam2(n) :
            LET N == FromMat(WithLine(M, arg.shape, axisArg, l, rs, step),
                             arg.shape, arg.T)
            IN Call(axisArg, N.view, N.cells, Outcome("perturbed"))

NextPair ==
    \/ Next
    \/ CallTransposed
    \/ CallPerturbed

SpecPair == InitPair /\ [][NextPair]_vars

(***************************************************************************)
(* What the claims speak of: the caller's array seen along the axis it     *)
(* asked for.  Lines and positions count from 0, as the code's indices do. *)
(***************************************************************************)
Rank12 == arg.isArray /\ ndim(arg) \in {1, 2}

\* the length along the differentiation axis, and the number of lines
AlongLen ==
    IF ndim(arg) = 2 /\ axisArg = 0 THEN arg.shape[1] ELSE arg.shape[ndim(arg)]
LineCnt ==
    IF ndim(arg) = 1 THEN 1
    ELSE IF axisArg = 0 THEN arg.shape[2] ELSE arg.shape[1]

\* sample i of line l of array v
AtLine(v, l, i) ==
    IF ndim(v) = 1 THEN Cell(heap, v, 0, i)
    ELSE IF axisArg = 0 THEN Cell(heap, v, i, l)
    ELSE Cell(heap, v, l, i)

\* samples lo .. lo+4 of line l of the input
Window(l, lo) == [k \in 1..5 |-> AtLine(arg, l, lo + k - 1)]

\* the dispatch table of the row stencil dispatcher
TableCell(l, i, n) ==
    IF i = 0 THEN Forward(fn, Window(l, 0), step)
    ELSE IF i = 1 THEN Assymmetric_F(fn, Window(l, 0), step)
    ELSE IF i = n - 2 THEN Assymmetric_B(fn, Window(l, n - 5), step)
    ELSE IF i = n - 1 THEN Backward(fn, Window(l, n - 5), step)
    ELSE Centered(fn, Window(l, i - 2), step)

\* line l of the input holds a + b*x + c*x^2 at x = i*step
IsPoly(l, a, b, c) ==
    \A i \in 0..(AlongLen - 1) :
        AtLine(arg, l, i) = <<a + b * (i * step) + c * (i * step) * (i * step), 1>>

\* line l (from 1) of an array given as rows, along the axis asked for
LineOf(M, l) ==
    IF axisArg = 0 THEN [r \in 1..Len(M) |-> M[r][l]] ELSE M[l]

(***************************************************************************)
(* C1: with 5 to 9 samples along the differentiation axis the call does    *)
(* not abort: it returns a derivative array of the input's shape.          *)
(***************************************************************************)
LowSampleStillReturns ==
    (pc = "done" /\ Rank12 /\ axisArg \in {-1, 0}
        /\ AlongLen >= MinPoints /\ AlongLen < WarnPoints)
    => (ret # NoArray /\ ret.shape = arg.shape)

(***************************************************************************)
(* C2: axis = 0 (first) on a 1-D array ends in the invalid-axis error      *)
(* and returns nothing, whatever the length.                               *)
(***************************************************************************)
AxisZeroRejectedOn1D ==
    (pc = "done" /\ arg.isArray /\ ndim(arg) = 1 /\ axisArg = 0)
    => (raised \in {Axis1Err, AxisErr} /\ ret = NoArray)

(***************************************************************************)
(* C3: for every accepted input with n >= 5 samples along the axis, the    *)
(* call returns and every cell i of every line is the stencil the dispatch *)
(* table names for i, applied to the window the table names.               *)
(***************************************************************************)
DispatchTable ==
    (pc = "done" /\ Rank12 /\ axisArg \in {-1, 0} /\ AlongLen >= MinPoints)
    => /\ ret # NoArray
       /\ \A l \in 0..(LineCnt - 1), i \in 0..(AlongLen - 1) :
            AtLine(ret, l, i) = TableCell(l, i, AlongLen)

\* the same table for the lengths at which the code returns (n >= 10)
DispatchTableFromTen ==
    (pc = "done" /\ Rank12 /\ axisArg \in {-1, 0} /\ AlongLen >= WarnPoints)
    => /\ ret # NoArray
       /\ \A l \in 0..(LineCnt - 1), i \in 0..(AlongLen - 1) :
            AtLine(ret, l, i) = TableCell(l, i, AlongLen)

(***************************************************************************)
(* C4: when the length along the differentiation axis is below 5, nothing  *)
(* is ever allocated or returned, and the call ends with the               *)
(* fewer-than-5-points exception raised by the length check.               *)
(***************************************************************************)
InsufficientData ==
    (Rank12 /\ axisArg \in {-1, 0} /\ AlongLen < MinPoints)
    => /\ out = NoArray /\ ret = NoArray /\ DOMAIN heap = {arg.buf}
       /\ pc \in {"type", "shape", "axis", "rotate", "length", "done"}
       /\ pc = "done" => raised = FewPointsErr

InsufficientDataWitness ==
    /\ pc = "done" /\ raised = FewPointsErr
    /\ ndim(arg) = 2 /\ axisArg = -1
    /\ arg.shape[2] < MinPoints /\ arg.shape[1] >= WarnPoints

(***************************************************************************)
(* C5: the call on A with axis = 0 and the call on transpose(A) with the   *)
(* last axis end alike: the same exception, or results that are each       *)
(* other's transpose.                                                      *)
(***************************************************************************)
TransposeConsistency ==
    (pc = "done" /\ prev.kind = "transposed")
    => /\ raised = prev.raised
       /\ (ret # NoArray) <=> prev.returned
       /\ ret # NoArray
          => /\ ret.shape = <<prev.shape[2], prev.shape[1]>>
             /\ Mat(heap, ret) = MatT(prev.res, prev.shape)

TransposeConsistencyWitness ==
    /\ pc = "done" /\ prev.kind = "transposed" /\ ret # NoArray
    /\ axisArg = -1
    /\ prev.shape[1] > 0 /\ prev.shape[2] > 0
    /\ prev.shape[1] # prev.shape[2]
    /\ \E r \in 1..prev.shape[1], c \in 1..prev.shape[2] :
          prev.res[r][c] # prev.res[1][1]

(***************************************************************************)
(* C6: on a line holding a + b*x + c*x^2 sampled at step h, every cell of  *)
(* the first derivative is b + 2c*x_i and every cell of the second is 2c   *)
(* (numerator = denominator times the expected value).                     *)
(***************************************************************************)
PolynomialExactness ==
    (pc = "done" /\ ret # NoArray)
    => \A l \in 0..(LineCnt - 1) : \A a \in Coefs, b \in Coefs, c \in Coefs :
          IsPoly(l, a, b, c)
          => \A i \in 0..(AlongLen - 1) :
                LET y == AtLine(ret, l, i)
                IN IF fn = "D1" THEN y[1] = (b + 2 * c * (i * step)) * y[2]
                   ELSE y[1] = (2 * c) * y[2]

PolynomialExactnessWitness ==
    /\ pc = "done" /\ ret # NoArray /\ fn = "D1" /\ ndim(arg) = 1
    /\ IsPoly(0, MaxCoef, MaxCoef, MaxCoef)
    /\ AtLine(ret, 0, 0) # AtLine(ret, 0, AlongLen - 1)

(***************************************************************************)
(* C7: a returned array has the shape of the input, for both axes.         *)
(***************************************************************************)
ShapePreserved ==
    (pc = "done" /\ ret # NoArray)
    => (ret.shape = arg.shape /\ Len(heap[ret.buf]) = Len(heap[arg.buf]))

ShapePreservedWitness ==
    /\ pc = "done" /\ ret # NoArray /\ bRotated
    /\ ndim(arg) = 2 /\ arg.shape[1] # arg.shape[2]

(***************************************************************************)
(* C8: two 2-D inputs of one shape that agree on a line along the          *)
(* differentiation axis give results that agree on that line.              *)
(***************************************************************************)
RowIndependence ==
    (pc = "done" /\ prev.kind = "perturbed" /\ ret # NoArray /\ prev.returned)
    => \A l \in 1..LineCnt :
          LineOf(prev.input, l) = LineOf(Mat(heap, arg), l)
          => LineOf(prev.res, l) = LineOf(Mat(heap, ret), l)

RowIndependenceWitness ==
    /\ pc = "done" /\ prev.kind = "perturbed" /\ ret # NoArray /\ axisArg = 0
    /\ \E l \in 1..LineCnt, k \in 1..LineCnt :
          /\ LineOf(prev.input, l) = LineOf(Mat(heap, arg), l)
          /\ LineOf(prev.input, k) # LineOf(Mat(heap, arg), k)
          /\ LineOf(prev.res, k) # LineOf(Mat(heap, ret), k)

(***************************************************************************)
(* C9: no step of a call changes the caller's array or its buffer, and     *)
(* neither out nor the returned array is a view on the input's buffer.     *)
(***************************************************************************)
InputUntouched ==
    /\ [][arg' = arg /\ heap'[arg.buf] = heap[arg.buf]]_vars
    /\ [](out # NoArray => out.buf # arg.buf)
    /\ [](ret # NoArray => ret.buf # arg.buf)

InputUntouchedWitness ==
    /\ pc = "done" /\ ret # NoArray /\ bRotated
    /\ ret.buf # arg.buf
    /\ \E k \in 1..Len(heap[arg.buf]) : heap[ret.buf][k] # heap[arg.buf][k]

(***************************************************************************)
(* C10: axis = 1 on a 2-D array passes the axis validation.                *)
(***************************************************************************)
AxisOneAcceptedOn2D ==
    (pc = "done" /\ arg.isArray /\ ndim(arg) = 2 /\ axisArg = 1)
    => raised \notin {Axis1Err, AxisErr}

====
